---- MODULE Spec2Model ----
(***************************************************************************)
(* The 'replication' sub-command of Nominatim                              *)
(* (src/nominatim/clicmd/replication.py): UpdateReplication._update, the   *)
(* replication update loop, and UpdateReplication._report_update.          *)
(*                                                                         *)
(* st[r] is the state of one invocation r of _update together with the     *)
(* collaborators it talks to (the status table, the logger, the record of  *)
(* the calls it made).  Spec runs one invocation.  SpecPair runs two       *)
(* invocations that differ only in whether the logger emits warnings, and  *)
(* feeds both the same collaborator results.  SpecReport runs the report   *)
(* on its own, and SpecLive the loop without a bound on its iterations,    *)
(* under weak fairness.  clock is the wall clock.                          *)
(***************************************************************************)
EXTENDS Integers, Sequences, FiniteSets, TLC

VARIABLES st, clock

vars == <<st, clock>>

Runs == DOMAIN st

(***************************************************************************)
(* Bounds of the model.                                                    *)
(***************************************************************************)
\* iterations of the while loop one invocation may begin
MaxIter == 2
\* latest timestamp of the reports checked on their own, in ticks
MaxTime == 5
\* clock ticks per second (datetime has sub-second resolution)
TicksPerSec == 2

\* line 111: the lowest update interval accepted for download.geofabrik.de
MinGeofabrikInterval == 86400

(***************************************************************************)
(* Values.                                                                 *)
(***************************************************************************)
\* Python's None and a value that is present
None == <<>>
Some(v) == <<v>>

\* replication.UpdateState: the outcome of one replication.update call
UpdateState == {"UP_TO_DATE", "MORE_PENDING", "NO_CHANGES"}

\* UpdateState.value
StateValue(state) ==
    CASE state = "UP_TO_DATE" -> 0
      [] state = "MORE_PENDING" -> 2
      [] state = "NO_CHANGES" -> 3

\* A URL as its parts: the host, then the segments of the path.
GeofabrikHost == "download.geofabrik.de"
Urls ==
    { <<"download.geofabrik.de", "europe-updates">>,
      <<"planet.openstreetmap.org", "replication", "minute">>,
      <<"mirror.example.org", "download.geofabrik.de", "europe-updates">> }
UrlHost(url) == url[1]

UpdateIntervals == {MinGeofabrikInterval - 1, MinGeofabrikInterval}
RecheckIntervals == {60, 600}

\* one call made to a collaborator, as a mock would record it: the operation,
\* its arguments or result, and whether it returned (ok) or raised
Call(op, label, a, b, ok) ==
    [op |-> op, label |-> label, a |-> a, b |-> b, ok |-> ok]

\* an exception
Exception(type, msg) == [type |-> type, msg |-> msg]
CollaboratorError(op) == Exception("CollaboratorError", op)

\* one line the logger emitted, and the iteration of the loop it was emitted
\* in (0 before the loop)
LogLine(level, msg, iter) == [level |-> level, msg |-> msg, iter |-> iter]

(***************************************************************************)
(* The logger: LOG.fatal always emits, LOG.warning emits when the level    *)
(* WARNING is enabled.                                                     *)
(***************************************************************************)
LOG_fatal(s, msg) == [s EXCEPT !.log = Append(@, LogLine("FATAL", msg, s.iter))]

LOG_warning(s, msg) ==
    IF s.log_warning THEN [s EXCEPT !.log = Append(@, LogLine("WARNING", msg, s.iter))]
    ELSE s

(***************************************************************************)
(* An exception leaves _update: no statement of the function catches one.  *)
(***************************************************************************)
\* a faulty variant of raise: the error is swallowed and the loop goes round
raise_and_retry(s, e) == [s EXCEPT !.pc = "connect"]

raise(s, e) == [s EXCEPT !.pc = "raised", !.err = Some(e)]

\* the call recorded
called(s, c) == [s EXCEPT !.hist = Append(@, c)]

(***************************************************************************)
(* Lines 102-122: the parameters and the two sanity checks.                *)
(***************************************************************************)
\* 'download.geofabrik.de' in params['base_url'] and update_interval < 86400
rate_limited(base_url, update_interval) ==
    /\ \E i \in 1..Len(base_url) : base_url[i] = GeofabrikHost
    /\ update_interval < MinGeofabrikInterval

\* the check of line 118 left out: --no-index refused in single-run mode too
continuous_without_index_any_mode(args) == ~args.do_index

\* not args.once, and then not args.do_index
continuous_without_index(args) == ~args.once /\ ~args.do_index

\* a faulty variant of validate: the check of --no-index made first
validate_index_first(s) ==
    IF continuous_without_index(s.args)
    THEN raise(LOG_fatal(s, "Indexing cannot be disabled when running updates continuously."),
               Exception("UsageError", "Bad argument '--no-index'."))
    ELSE IF rate_limited(s.config.REPLICATION_URL, s.config.REPLICATION_UPDATE_INTERVAL)
    THEN raise(LOG_fatal(s, "Update interval too low for download.geofabrik.de."),
               Exception("UsageError", "Invalid replication update interval setting."))
    ELSE [s EXCEPT !.recheck_interval =
                       IF ~s.args.once
                       THEN Some(s.config.REPLICATION_RECHECK_INTERVAL)
                       ELSE None,
                   !.pc = "connect"]

validate(s) ==
    IF rate_limited(s.config.REPLICATION_URL, s.config.REPLICATION_UPDATE_INTERVAL)
    THEN raise(LOG_fatal(s, "Update interval too low for download.geofabrik.de."),
               Exception("UsageError", "Invalid replication update interval setting."))
    ELSE IF continuous_without_index(s.args)
    THEN raise(LOG_fatal(s, "Indexing cannot be disabled when running updates continuously."),
               Exception("UsageError", "Bad argument '--no-index'."))
    ELSE [s EXCEPT !.recheck_interval =
                       IF ~s.args.once
                       THEN Some(s.config.REPLICATION_RECHECK_INTERVAL)
                       ELSE None,
                   !.pc = "connect"]

(***************************************************************************)
(* Lines 125-131: the first connection of an iteration.                    *)
(***************************************************************************)
\* conn = connect(dsn)
connect(s, next, ok) ==
    LET c == called(s, Call("connect", "", 0, 0, ok)) IN
    IF ok THEN [c EXCEPT !.open = @ + 1, !.pc = next]
    ELSE raise(c, CollaboratorError("connect"))

\* conn.close()
close(s, next) ==
    [called(s, Call("close", "", 0, 0, TRUE)) EXCEPT !.open = @ - 1, !.pc = next]

\* line 125
connect_first(s, ok) ==
    connect([s EXCEPT !.iter = @ + 1], "now_start", ok)

\* line 126: start = dt.datetime.now(dt.timezone.utc)
now_start(s, now) ==
    [called(s, Call("now", "", now, 0, TRUE)) EXCEPT
         !.start = Some(now), !.pc = "update"]

\* what replication.update does to the status table when it applied a diff:
\* the date of the data moves on, and the data is indexed or not
StatusAfterUpdate(store, date, indexed) ==
    [store EXCEPT !.date = date, !.indexed = indexed]

\* lines 127-128: state = replication.update(conn, params), and the choice
\* of writing the import log
replication_update(s, state, date, indexed, ok) ==
    LET c == called(s, Call("update", IF ok THEN state ELSE "", 0, 0, ok)) IN
    IF ~ok THEN raise(c, CollaboratorError("update"))
    ELSE IF state # "NO_CHANGES"
    THEN [c EXCEPT !.state = state,
                   !.store = StatusAfterUpdate(@, date, indexed),
                   !.pc = "log_import"]
    ELSE [c EXCEPT !.state = state, !.pc = "get_status"]

\* line 129: status.log_status(conn, start, 'import')
log_import(s, ok) ==
    LET c == called(s, Call("log_status", "import", s.start[1], 0, ok)) IN
    IF ok THEN [c EXCEPT !.pc = "get_status"]
    ELSE raise(c, CollaboratorError("log_status"))

\* a faulty variant of get_status: the batch date is read in the first
\* iteration and kept for the later ones
get_status_first_only(s, ok) ==
    IF s.batchdate # None THEN [s EXCEPT !.pc = "close_first"]
    ELSE LET c == called(s, Call("get_status", "", 0, 0, ok)) IN
         IF ok THEN [c EXCEPT !.batchdate = Some(s.store.date), !.pc = "close_first"]
         ELSE raise(c, CollaboratorError("get_status"))

\* line 130: batchdate, _, _ = status.get_status(conn)
get_status(s, ok) ==
    LET c == called(s, Call("get_status", "", 0, 0, ok)) IN
    IF ok THEN [c EXCEPT !.batchdate = Some(s.store.date), !.pc = "close_first"]
    ELSE raise(c, CollaboratorError("get_status"))

\* a faulty variant of needs_index: --no-index is not looked at
needs_index_whatever_the_flag(s) == s.state # "NO_CHANGES"

\* line 133: state is not replication.UpdateState.NO_CHANGES and args.do_index
needs_index(s) == s.state # "NO_CHANGES" /\ s.args.do_index

\* a faulty variant of close_first: the connection is not closed
close_first_leak(s) ==
    IF needs_index(s) THEN [s EXCEPT !.pc = "now_index"]
    ELSE [s EXCEPT !.pc = "report", !.index_start = None]

\* lines 131-133 and 144-145: conn.close(), then whether to index
close_first(s) ==
    IF needs_index(s) THEN close(s, "now_index")
    ELSE [close(s, "report") EXCEPT !.index_start = None]

(***************************************************************************)
(* Lines 134-143: indexing.                                                *)
(***************************************************************************)
\* line 134: index_start = dt.datetime.now(dt.timezone.utc)
now_index(s, now) ==
    [called(s, Call("now", "", now, 0, TRUE)) EXCEPT
         !.index_start = Some(now), !.pc = "index_boundaries"]

\* lines 135-137: indexer = Indexer(dsn, threads); indexer.index_boundaries(0, 30)
index_boundaries(s, ok) ==
    LET c == called(s, Call("index_boundaries", "", 0, 30, ok)) IN
    IF ok THEN [c EXCEPT !.pc = "index_by_rank"]
    ELSE raise(c, CollaboratorError("index_boundaries"))

\* a faulty variant of index_by_rank: when the phase fails the data is
\* marked as not indexed before the error goes on
index_by_rank_marking_unindexed(s, ok) ==
    LET c == called(s, Call("index_by_rank", "", 0, 30, ok)) IN
    IF ok THEN [c EXCEPT !.pc = "connect_second"]
    ELSE raise([c EXCEPT !.store.indexed = FALSE], CollaboratorError("index_by_rank"))

\* line 138: indexer.index_by_rank(0, 30)
index_by_rank(s, ok) ==
    LET c == called(s, Call("index_by_rank", "", 0, 30, ok)) IN
    IF ok THEN [c EXCEPT !.pc = "connect_second"]
    ELSE raise(c, CollaboratorError("index_by_rank"))

\* line 140: conn = connect(dsn)
connect_second(s, ok) == connect(s, "set_indexed", ok)

\* status.set_indexed(conn, state) on the status table
StatusIndexed(store, state) == [store EXCEPT !.indexed = state]

\* line 141: status.set_indexed(conn, True)
set_indexed(s, ok) ==
    LET c == called(s, Call("set_indexed", "True", 0, 0, ok)) IN
    IF ok THEN [c EXCEPT !.store = StatusIndexed(@, TRUE), !.pc = "log_index"]
    ELSE raise(c, CollaboratorError("set_indexed"))

\* a faulty variant of log_index: the index log stamped with the start of
\* the iteration
log_index_with_start(s, ok) ==
    LET c == called(s, Call("log_status", "index", s.start[1], 0, ok)) IN
    IF ok THEN [c EXCEPT !.pc = "close_second"]
    ELSE raise(c, CollaboratorError("log_status"))

\* line 142: status.log_status(conn, index_start, 'index')
log_index(s, ok) ==
    LET c == called(s, Call("log_status", "index", s.index_start[1], 0, ok)) IN
    IF ok THEN [c EXCEPT !.pc = "close_second"]
    ELSE raise(c, CollaboratorError("log_status"))

\* line 143: conn.close()
close_second(s) == close(s, "report")

(***************************************************************************)
(* Lines 84-95: _report_update.                                            *)
(***************************************************************************)
\* a faulty variant of int_div: the floor of the quotient, as n // d gives it
floor_div(n, d) == n \div d

\* int(x) for the quotient x = n / d of integers, d > 0: towards zero
int_div(n, d) == IF n >= 0 THEN n \div d ELSE -((-n) \div d)

\* lines 86-87: dt.timedelta(seconds=int(delta.total_seconds())), delta in ticks
round_time(delta) == int_div(delta, TicksPerSec)

\* a faulty variant of report_update: the import taken to last until the end
report_update_import_to_end(batchdate, start_import, start_index, end) ==
    [import   |-> round_time(end - start_import),
     indexing |-> IF start_index # None
                  THEN Some(round_time(end - start_index[1]))
                  ELSE None,
     total    |-> round_time(end - start_import),
     backlog  |-> round_time(end - batchdate)]

\* lines 89-95: the values of the line "Update completed. ..."
\* start_index is None or Some(t); end is the clock read on line 89
report_update(batchdate, start_import, start_index, end) ==
    [import   |-> round_time((IF start_index # None THEN start_index[1] ELSE end)
                             - start_import),
     indexing |-> IF start_index # None
                  THEN Some(round_time(end - start_index[1]))
                  ELSE None,
     total    |-> round_time(end - start_import),
     backlog  |-> round_time(end - batchdate)]

\* a faulty variant of report: lines 150-155 nested under the test of the
\* logger, so that without warnings the loop goes round at once
report_gating_loop(s, now) ==
    IF s.log_warning
    THEN [LOG_warning(s, "Update completed.") EXCEPT
              !.report = Some(report_update(s.batchdate[1], s.start[1],
                                            s.index_start, now)),
              !.pc = "decide"]
    ELSE [s EXCEPT !.pc = "connect"]

\* lines 147-148: the report, when the logger takes warnings; now is the
\* clock as line 89 reads it, and s.report the values of the line emitted
report(s, now) ==
    IF s.log_warning
    THEN [LOG_warning(s, "Update completed.") EXCEPT
              !.report = Some(report_update(s.batchdate[1], s.start[1],
                                            s.index_start, now)),
              !.pc = "decide"]
    ELSE [s EXCEPT !.pc = "decide"]

(***************************************************************************)
(* Lines 150-157: leave the loop, sleep, or go round again.                *)
(***************************************************************************)
\* a faulty variant of must_sleep: a sleep after every iteration
must_sleep_always(s) == TRUE

\* a faulty variant of must_sleep: no sleep after any iteration
must_sleep_never(s) == FALSE

\* line 153: state is replication.UpdateState.NO_CHANGES
must_sleep(s) == s.state = "NO_CHANGES"

\* a faulty variant of return_value: success whatever the outcome
return_zero(s) == 0

\* line 157: return state.value
return_value(s) == StateValue(s.state)

\* lines 150-154 and 157
\* a faulty variant of decide: the loop is left as soon as the database is
\* up to date, in continuous mode too
decide_break_when_up_to_date(s) ==
    IF s.args.once \/ s.state = "UP_TO_DATE"
    THEN [s EXCEPT !.ret = Some(return_value(s)), !.pc = "done"]
    ELSE IF must_sleep(s)
    THEN [LOG_warning(s, "No new changes. Sleeping.") EXCEPT !.pc = "sleep"]
    ELSE [s EXCEPT !.pc = "connect"]

\* a faulty variant of decide: the sleep of lines 153-155 placed before the
\* break of lines 150-151
decide_sleep_before_break(s) ==
    IF must_sleep(s)
    THEN [LOG_warning(s, "No new changes. Sleeping.") EXCEPT !.pc = "sleep"]
    ELSE IF s.args.once
    THEN [s EXCEPT !.ret = Some(return_value(s)), !.pc = "done"]
    ELSE [s EXCEPT !.pc = "connect"]

decide(s) ==
    IF s.args.once
    THEN [s EXCEPT !.ret = Some(return_value(s)), !.pc = "done"]
    ELSE IF must_sleep(s)
    THEN [LOG_warning(s, "No new changes. Sleeping.") EXCEPT !.pc = "sleep"]
    ELSE [s EXCEPT !.pc = "connect"]

\* a faulty variant of sleep: the update interval taken for the recheck
\* interval
sleep_update_interval(s) ==
    [called(s, Call("sleep", "", s.config.REPLICATION_UPDATE_INTERVAL, 0, TRUE))
        EXCEPT !.pc = "connect"]

\* line 155: time.sleep(recheck_interval); the name is unbound when the
\* interval was never read
\* a faulty variant of sleep: the loop is left after the sleep
sleep_and_leave(s) ==
    IF s.recheck_interval = None
    THEN raise(s, Exception("UnboundLocalError", "recheck_interval"))
    ELSE [called(s, Call("sleep", "", s.recheck_interval[1], 0, TRUE)) EXCEPT !.pc = "done"]

sleep(s) ==
    IF s.recheck_interval = None
    THEN raise(s, Exception("UnboundLocalError", "recheck_interval"))
    ELSE [called(s, Call("sleep", "", s.recheck_interval[1], 0, TRUE)) EXCEPT
              !.pc = "connect"]

(***************************************************************************)
(* The state machine.                                                      *)
(***************************************************************************)
\* the state of an invocation on entry to _update
Entry(args, config, log_warning) ==
    [args |-> args, config |-> config, log_warning |-> log_warning,
     pc |-> "validate", iter |-> 0, open |-> 0,
     state |-> "unset", start |-> None, index_start |-> None,
     batchdate |-> None, recheck_interval |-> None,
     ret |-> None, err |-> None, report |-> None,
     store |-> [date |-> 0, indexed |-> TRUE],
     hist |-> <<>>, log |-> <<>>]

Args == [once : BOOLEAN, do_index : BOOLEAN]

Config ==
    [REPLICATION_URL : Urls,
     REPLICATION_UPDATE_INTERVAL : UpdateIntervals,
     REPLICATION_RECHECK_INTERVAL : RecheckIntervals]

Init ==
    /\ \E args \in Args, config \in Config, lw \in BOOLEAN :
           st = [r \in {1} |-> Entry(args, config, lw)]
    /\ clock = 0

\* two invocations that differ in the logger's level only
InitPair ==
    /\ \E args \in Args, config \in Config :
           st = [r \in {1, 2} |-> Entry(args, config, r = 1)]
    /\ clock = 0

\* every invocation is at the same statement and takes it
Step(at, F(_)) ==
    /\ \A r \in Runs : st[r].pc = at
    /\ st' = [r \in Runs |-> F(st[r])]

\* the clock reading that follows the last one: the loop reads the clock and
\* never sets it, and every reading is later than the one before
Readings == {clock + 1}

\* the dates replication.update may leave in the status table: the date of
\* the diff it applied, which is behind the local clock
Dates == {d \in {clock - 1, clock} : d >= 0}

Validate == Step("validate", validate) /\ UNCHANGED clock

ConnectFirst ==
    /\ \A r \in Runs : st[r].iter < MaxIter
    /\ \E ok \in BOOLEAN : Step("connect", LAMBDA s : connect_first(s, ok))
    /\ UNCHANGED clock

NowStart ==
    \E now \in Readings :
        /\ Step("now_start", LAMBDA s : now_start(s, now))
        /\ clock' = now

Update ==
    /\ \E state \in UpdateState, date \in Dates, indexed \in BOOLEAN, ok \in BOOLEAN :
           /\ \A r \in Runs : st[r].store.date <= date
           /\ Step("update", LAMBDA s : replication_update(s, state, date, indexed, ok))
    /\ UNCHANGED clock

LogImport ==
    /\ \E ok \in BOOLEAN : Step("log_import", LAMBDA s : log_import(s, ok))
    /\ UNCHANGED clock

GetStatus ==
    /\ \E ok \in BOOLEAN : Step("get_status", LAMBDA s : get_status(s, ok))
    /\ UNCHANGED clock

CloseFirst == Step("close_first", close_first) /\ UNCHANGED clock

NowIndex ==
    \E now \in Readings :
        /\ Step("now_index", LAMBDA s : now_index(s, now))
        /\ clock' = now

IndexBoundaries ==
    /\ \E ok \in BOOLEAN : Step("index_boundaries", LAMBDA s : index_boundaries(s, ok))
    /\ UNCHANGED clock

IndexByRank ==
    /\ \E ok \in BOOLEAN : Step("index_by_rank", LAMBDA s : index_by_rank(s, ok))
    /\ UNCHANGED clock

ConnectSecond ==
    /\ \E ok \in BOOLEAN : Step("connect_second", LAMBDA s : connect_second(s, ok))
    /\ UNCHANGED clock

SetIndexed ==
    /\ \E ok \in BOOLEAN : Step("set_indexed", LAMBDA s : set_indexed(s, ok))
    /\ UNCHANGED clock

LogIndex ==
    /\ \E ok \in BOOLEAN : Step("log_index", LAMBDA s : log_index(s, ok))
    /\ UNCHANGED clock

CloseSecond == Step("close_second", close_second) /\ UNCHANGED clock

Report ==
    \E now \in Readings :
        /\ Step("report", LAMBDA s : report(s, now))
        /\ clock' = now

Decide == Step("decide", decide) /\ UNCHANGED clock

\* the ticks the call of time.sleep lasts
sleep_ticks(s) ==
    IF s.recheck_interval = None THEN 0 ELSE s.recheck_interval[1] * TicksPerSec

Sleep ==
    /\ Step("sleep", sleep)
    /\ \E d \in {sleep_ticks(st[r]) : r \in Runs} : clock' = clock + d

Next ==
    \/ Validate
    \/ ConnectFirst
    \/ NowStart
    \/ Update
    \/ LogImport
    \/ GetStatus
    \/ CloseFirst
    \/ NowIndex
    \/ IndexBoundaries
    \/ IndexByRank
    \/ ConnectSecond
    \/ SetIndexed
    \/ LogIndex
    \/ CloseSecond
    \/ Report
    \/ Decide
    \/ Sleep

Spec == Init /\ [][Next]_vars

SpecPair == InitPair /\ [][Next]_vars

(***************************************************************************)
(* The loop without a bound on its iterations.  A continuous run goes on   *)
(* for ever, and so do the clock, the record of its calls and its log.     *)
(* For the progress of the loop they are kept for the iteration under way  *)
(* only: an iteration begins as in ConnectFirst, with the calls and lines  *)
(* of the iterations before it dropped and time counted from its start.    *)
(* The locals keep their values from one iteration to the next, as in the  *)
(* code.  The loop is one sequential thread, of which every call and every *)
(* sleep returns: a step that can be taken is taken.                       *)
(***************************************************************************)
\* an invocation at the head of the loop, seen from there on
Rewound(s) ==
    [s EXCEPT !.hist = <<>>, !.log = <<>>, !.iter = 0, !.store.date = 0]

\* line 125, in any iteration
ConnectLive ==
    /\ \E ok \in BOOLEAN : Step("connect", LAMBDA s : connect_first(Rewound(s), ok))
    /\ clock' = 0

NextLive ==
    \/ Validate
    \/ ConnectLive
    \/ NowStart
    \/ Update
    \/ LogImport
    \/ GetStatus
    \/ CloseFirst
    \/ NowIndex
    \/ IndexBoundaries
    \/ IndexByRank
    \/ ConnectSecond
    \/ SetIndexed
    \/ LogIndex
    \/ CloseSecond
    \/ Report
    \/ Decide
    \/ Sleep

SpecLive == Init /\ [][NextLive]_vars /\ WF_vars(NextLive)

(***************************************************************************)
(* _report_update on its own: an invocation about to report, with the      *)
(* timestamps of its iteration drawn from 0..MaxTime, and with those of    *)
(* the example loop_start = T0, index_start = T0 + 5 s, now = T0 + 20 s,   *)
(* batch timestamp = T0 - 100 s.                                           *)
(***************************************************************************)
\* the timestamps of an iteration, and the clock before the report reads it
ReportInput(batchdate, start, index_start, before) ==
    [batchdate |-> batchdate, start |-> start, index_start |-> index_start,
     before |-> before]

ExampleInput ==
    ReportInput(0, 100 * TicksPerSec, Some(105 * TicksPerSec),
                120 * TicksPerSec - 1)

ReportInputs ==
    { ReportInput(b, s, i, c) :
          b \in 0..MaxTime, s \in 0..MaxTime,
          i \in {None} \cup {Some(x) : x \in 0..MaxTime}, c \in 0..MaxTime }
    \cup {ExampleInput}

\* the clock does not run backwards between the readings of an iteration
Ordered(in) ==
    /\ in.start <= in.before + 1
    /\ in.index_start # None =>
           (in.start <= in.index_start[1] /\ in.index_start[1] <= in.before + 1)

\* an invocation after line 145 of its first iteration
AtReport(in, log_warning) ==
    [Entry([once |-> TRUE, do_index |-> in.index_start # None],
           CHOOSE c \in Config :
               ~rate_limited(c.REPLICATION_URL, c.REPLICATION_UPDATE_INTERVAL),
           log_warning)
        EXCEPT !.pc = "report", !.iter = 1,
               !.state = IF in.index_start # None THEN "UP_TO_DATE"
                         ELSE "NO_CHANGES",
               !.start = Some(in.start), !.index_start = in.index_start,
               !.batchdate = Some(in.batchdate),
               !.store = [date |-> in.batchdate, indexed |-> TRUE]]

InitReport ==
    \E in \in ReportInputs, lw \in BOOLEAN :
        /\ Ordered(in)
        /\ st = [r \in {1} |-> AtReport(in, lw)]
        /\ clock = in.before

NextReport == Report

SpecReport == InitReport /\ [][NextReport]_vars

(***************************************************************************)
(* Properties.                                                             *)
(***************************************************************************)
IntervalError == Exception("UsageError", "Invalid replication update interval setting.")
NoIndexError == Exception("UsageError", "Bad argument '--no-index'.")

\* the loop never started: no connection was opened, no collaborator called
NeverStarted(s) == s.hist = <<>> /\ s.open = 0 /\ s.iter = 0 /\ s.ret = None

\* C1: rate-limit guard.  When the host of the base URL is
\* download.geofabrik.de and the update interval is below 86400, _update
\* ends with the usage error and the loop never started; with an interval of
\* at least 86400 on that host, or with any other host, the interval check
\* does not fail.
C1_RateLimitGuard ==
    \A r \in Runs :
        LET s == st[r]
            low == s.config.REPLICATION_UPDATE_INTERVAL < 86400
            geofabrik == UrlHost(s.config.REPLICATION_URL) = "download.geofabrik.de"
        IN  s.pc # "validate" =>
                IF geofabrik /\ low
                THEN s.pc = "raised" /\ s.err = Some(IntervalError) /\ NeverStarted(s)
                ELSE s.err # Some(IntervalError)

\* C2: continuous-without-indexing guard.  Continuous mode with indexing
\* disabled ends with a usage error and the loop never started; continuous
\* mode with indexing, and single-run mode with or without indexing, are
\* not refused for --no-index.
C2_ContinuousNeedsIndex ==
    \A r \in Runs :
        LET s == st[r] IN
        s.pc # "validate" =>
            IF ~s.args.once /\ ~s.args.do_index
            THEN /\ s.pc = "raised"
                 /\ s.err # None /\ s.err[1].type = "UsageError"
                 /\ NeverStarted(s)
            ELSE /\ s.err # Some(NoIndexError)
                 /\ (s.err # Some(IntervalError) => s.pc # "raised" \/ s.hist # <<>>)

\* C2's case: a continuous run without indexing was refused for --no-index
C2_Witness ==
    \E r \in Runs : /\ ~st[r].args.once /\ ~st[r].args.do_index
                    /\ st[r].pc = "raised" /\ st[r].err = Some(NoIndexError)
                    /\ NeverStarted(st[r])

(***************************************************************************)
(* The calls of a run, cut at its calls of replication.update.             *)
(***************************************************************************)
\* the places of the calls of replication.update in a record of calls
Updates(h) == {i \in 1..Len(h) : h[i].op = "update"}

\* the place of the first call of replication.update after place i, or the
\* place after the last call when there is none
NextUpdate(h, i) ==
    IF \E j \in Updates(h) : j > i
    THEN CHOOSE j \in Updates(h) : j > i /\ \A k \in Updates(h) : k > i => j <= k
    ELSE Len(h) + 1

\* the calls after the call at place i and before the next replication.update
After(h, i) == SubSeq(h, i + 1, NextUpdate(h, i) - 1)

\* the places of the calls of one operation
Places(h, op) == {k \in 1..Len(h) : h[k].op = op}

\* h is a prefix of e
IsPrefix(h, e) == Len(h) <= Len(e) /\ \A k \in 1..Len(h) : h[k] = e[k]

\* C3: no-op iteration.  After a call of replication.update that returned
\* NO_CHANGES and before the next one, no status log is written, no indexing
\* phase runs and set_indexed is not called; and when a next call of
\* replication.update follows, the run is continuous and slept exactly once
\* in between, for the configured recheck interval.
C3_NoOpIteration ==
    \A r \in Runs :
        LET s == st[r] IN
        \A i \in Updates(s.hist) :
            (s.hist[i].ok /\ s.hist[i].label = "NO_CHANGES") =>
                LET after == After(s.hist, i) IN
                /\ \A k \in 1..Len(after) :
                       after[k].op \notin {"log_status", "index_boundaries",
                                           "index_by_rank", "set_indexed"}
                /\ NextUpdate(s.hist, i) <= Len(s.hist) =>
                       /\ ~s.args.once
                       /\ Cardinality(Places(after, "sleep")) = 1
                       /\ \A k \in Places(after, "sleep") :
                              after[k].a = s.config.REPLICATION_RECHECK_INTERVAL

\* C3's case: replication.update returned NO_CHANGES and was called again
C3_Witness ==
    \E r \in Runs : \E i \in Updates(st[r].hist) :
        /\ st[r].hist[i].label = "NO_CHANGES"
        /\ NextUpdate(st[r].hist, i) <= Len(st[r].hist)

\* the calls that follow a call of replication.update that applied changes,
\* with indexing enabled: loop_start and index_start are the two clock
\* readings, next_start the reading of the next iteration
ChangedIteration(loop_start, index_start, next_start) ==
    << Call("log_status", "import", loop_start, 0, TRUE),
       Call("get_status", "", 0, 0, TRUE),
       Call("close", "", 0, 0, TRUE),
       Call("now", "", index_start, 0, TRUE),
       Call("index_boundaries", "", 0, 30, TRUE),
       Call("index_by_rank", "", 0, 30, TRUE),
       Call("connect", "", 0, 0, TRUE),
       Call("set_indexed", "True", 0, 0, TRUE),
       Call("log_status", "index", index_start, 0, TRUE),
       Call("close", "", 0, 0, TRUE),
       Call("connect", "", 0, 0, TRUE),
       Call("now", "", next_start, 0, TRUE) >>

\* a record of calls with the last call taken as having returned
Returned(h) ==
    [k \in 1..Len(h) |-> IF k = Len(h) THEN [h[k] EXCEPT !.ok = TRUE] ELSE h[k]]

\* C4: changed iteration with indexing enabled.  A call of
\* replication.update that returned another outcome than NO_CHANGES, in a
\* run with indexing enabled, follows the reading of loop_start, and the
\* calls after it are, in this order: the import log with loop_start,
\* get_status, close, the reading of index_start, index_boundaries(0, 30),
\* index_by_rank(0, 30), connect, set_indexed(True), the index log with
\* index_start, close, and in continuous mode the connect and the clock
\* reading of the next iteration, with no sleep; the indexed flag is true
\* once set_indexed returned.
C4_ChangedIteration ==
    \A r \in Runs :
        LET s == st[r] IN
        /\ \A i \in Updates(s.hist) :
               (s.hist[i].ok /\ s.hist[i].label # "NO_CHANGES" /\ s.args.do_index) =>
                   LET after == After(s.hist, i)
                       index_start == IF Len(after) >= 4 THEN after[4].a ELSE 0
                       next_start == IF Len(after) >= 12 THEN after[12].a ELSE 0
                   IN  /\ i > 1 /\ s.hist[i - 1].op = "now"
                       /\ IsPrefix(Returned(after),
                                   ChangedIteration(s.hist[i - 1].a, index_start,
                                                    next_start))
                       /\ Len(after) > 10 => ~s.args.once
                       /\ s.pc \in {"report", "decide", "done"} => Len(after) >= 10
        /\ s.pc \in {"log_index", "close_second"} => s.store.indexed

\* C4's case: a continuous run applied changes, indexed them and called
\* replication.update again
C4_Witness ==
    \E r \in Runs : \E i \in Updates(st[r].hist) :
        /\ st[r].hist[i].label \in {"UP_TO_DATE", "MORE_PENDING"}
        /\ st[r].args.do_index /\ ~st[r].args.once
        /\ NextUpdate(st[r].hist, i) <= Len(st[r].hist)
        /\ Len(After(st[r].hist, i)) = 12

\* C5: single-run termination.  A single-run invocation calls
\* replication.update at most once, never sleeps and never begins a second
\* iteration; when it has returned, every call it made returned,
\* replication.update was called once, the indexing phases, set_indexed and
\* the index log followed when the outcome was not NO_CHANGES and indexing
\* is enabled, and the value returned is the numeric value of the outcome.
C5_SingleRun ==
    \A r \in Runs :
        LET s == st[r] IN
        s.args.once =>
            /\ Cardinality(Updates(s.hist)) <= 1
            /\ Places(s.hist, "sleep") = {}
            /\ s.pc # "sleep"
            /\ s.iter <= 1
            /\ s.pc = "connect" => s.iter = 0
            /\ s.pc = "done" =>
                   /\ \A k \in 1..Len(s.hist) : s.hist[k].ok
                   /\ \E i \in Updates(s.hist) :
                          /\ s.ret = Some(StateValue(s.hist[i].label))
                          /\ (s.hist[i].label # "NO_CHANGES" /\ s.args.do_index) =>
                                 /\ Len(After(s.hist, i)) = 10
                                 /\ After(s.hist, i)[5].op = "index_boundaries"
                                 /\ After(s.hist, i)[6].op = "index_by_rank"
                                 /\ After(s.hist, i)[9] =
                                        Call("log_status", "index",
                                             s.index_start[1], 0, TRUE)

\* C5's case: a single-run invocation applied changes, indexed them and
\* returned
C5_Witness ==
    \E r \in Runs :
        /\ st[r].args.once /\ st[r].args.do_index
        /\ st[r].pc = "done" /\ st[r].state = "MORE_PENDING"
        /\ st[r].ret = Some(2)

\* C6: connection lifetime.  While no error was raised the loop holds at
\* most one open connection, and none while it takes index_start, while an
\* indexing phase runs, while it sleeps, when it opens the connection of an
\* iteration, and after the last close of an iteration.
C6_ConnectionLifetime ==
    \A r \in Runs :
        LET s == st[r] IN
        s.pc # "raised" =>
            /\ s.open \in {0, 1}
            /\ s.pc \in {"now_index", "index_boundaries", "index_by_rank",
                         "connect_second"} => s.open = 0
            /\ s.pc = "sleep" => s.open = 0
            /\ s.pc = "connect" => s.open = 0
            /\ s.pc \in {"validate", "report", "decide", "done"} => s.open = 0

\* C6's case: the second iteration of a run is in its second indexing phase
C6_Witness ==
    \E r \in Runs :
        /\ st[r].pc = "index_by_rank" /\ st[r].iter = 2 /\ st[r].open = 0
        /\ Cardinality(Places(st[r].hist, "close")) = 3

\* C7: collaborator errors end the loop.  A call of a collaborator that
\* raised is the last call of the run: the run has ended with that error,
\* unchanged, and without a return value.
C7_ErrorsPropagate ==
    \A r \in Runs :
        LET s == st[r] IN
        \A i \in 1..Len(s.hist) :
            ~s.hist[i].ok =>
                /\ i = Len(s.hist)
                /\ s.pc = "raised"
                /\ s.err = Some(CollaboratorError(s.hist[i].op))
                /\ s.ret = None

\* C7's case: in the second iteration of a continuous run index_by_rank
\* raised
C7_Witness ==
    \E r \in Runs :
        LET s == st[r] IN
        /\ ~s.args.once /\ s.iter = 2 /\ s.pc = "raised"
        /\ s.hist[Len(s.hist)] = Call("index_by_rank", "", 0, 30, FALSE)

\* C10: sleep if and only if warranted.  Between two consecutive calls of
\* replication.update the loop sleeps if and only if the run is continuous
\* and the earlier call returned NO_CHANGES; a sleep comes only after such
\* a call, once, after the get_status and the close of that iteration; and
\* there is no sleep before the first call.
C10_SleepIffNoChanges ==
    \A r \in Runs :
        LET s == st[r] IN
        /\ \A i \in Updates(s.hist) :
               LET after == After(s.hist, i)
                   slept == Places(after, "sleep")
               IN  /\ NextUpdate(s.hist, i) <= Len(s.hist) =>
                          (slept # {} <=>
                               (~s.args.once /\ s.hist[i].label = "NO_CHANGES"))
                   /\ slept # {} =>
                          /\ ~s.args.once /\ s.hist[i].label = "NO_CHANGES"
                          /\ slept = {3}
                          /\ after[1].op = "get_status" /\ after[2].op = "close"
        /\ \A k \in Places(s.hist, "sleep") : \E i \in Updates(s.hist) : i < k
        /\ s.pc = "sleep" => (~s.args.once /\ s.state = "NO_CHANGES")

\* C10's case: replication.update applied changes and was called again, with
\* no sleep in the run
C10_Witness ==
    \E r \in Runs :
        LET s == st[r] IN
        /\ Cardinality(Updates(s.hist)) = 2
        /\ \E i \in Updates(s.hist) : s.hist[i].label = "MORE_PENDING"
                                       /\ NextUpdate(s.hist, i) <= Len(s.hist)
        /\ Places(s.hist, "sleep") = {}

\* a timestamp in whole seconds
Seconds(t) == t \div TicksPerSec
WholeSecond(t) == t % TicksPerSec = 0

\* the report of a run that has just reported is as the timestamps of its
\* iteration give it, when they are whole seconds and
\* batch timestamp <= loop_start <= index_start <= now
ReportAsGiven(s, now) ==
    LET ran == s.index_start # None
        batch == s.batchdate[1]
        loop_start == s.start[1]
    IN  ( /\ WholeSecond(batch) /\ WholeSecond(loop_start) /\ WholeSecond(now)
          /\ batch <= loop_start /\ loop_start <= now
          /\ ran => /\ WholeSecond(s.index_start[1])
                    /\ loop_start <= s.index_start[1]
                    /\ s.index_start[1] <= now )
        => /\ s.report # None
           /\ s.report[1].import =
                  (IF ran THEN Seconds(s.index_start[1]) ELSE Seconds(now))
                  - Seconds(loop_start)
           /\ s.report[1].total = Seconds(now) - Seconds(loop_start)
           /\ s.report[1].backlog = Seconds(now) - Seconds(batch)
           /\ (s.report[1].indexing # None) <=> ran
           /\ ran => s.report[1].indexing = Some(Seconds(now) - Seconds(s.index_start[1]))

\* the run reported on the timestamps of the example
OnExample(s) ==
    /\ s.batchdate = Some(ExampleInput.batchdate)
    /\ s.start = Some(ExampleInput.start)
    /\ s.index_start = ExampleInput.index_start
    /\ clock = ExampleInput.before + 1

\* C8 as amended: report correctness.  For whole-second timestamps with
\* batch timestamp <= loop_start <= index_start <= now the report shows
\* import = (index_start if indexing ran, else now) - loop_start,
\* total = now - loop_start, backlog = now - batch timestamp, and an index
\* duration, now - index_start, if and only if indexing ran; loop_start =
\* T0, index_start = T0 + 5, now = T0 + 20, batch = T0 - 100 gives 5, 15,
\* 20 and a backlog of 120.
C8_ReportCorrect ==
    \A r \in Runs :
        LET s == st[r] IN
        (s.pc = "decide" /\ s.log_warning) =>
            /\ ReportAsGiven(s, clock)
            /\ OnExample(s) =>
                   s.report = Some([import |-> 5, indexing |-> Some(15),
                                    total |-> 20, backlog |-> 120])

\* C8 as claimed: the same, with a backlog of 100 for the example
C8_ReportCorrect_AsClaimed ==
    \A r \in Runs :
        LET s == st[r] IN
        (s.pc = "decide" /\ s.log_warning) =>
            /\ ReportAsGiven(s, clock)
            /\ OnExample(s) =>
                   s.report = Some([import |-> 5, indexing |-> Some(15),
                                    total |-> 20, backlog |-> 100])

\* C8's case: a report on whole-second timestamps of an iteration that
\* indexed, with every duration at least a second
C8_Witness ==
    \E r \in Runs :
        LET s == st[r] IN
        /\ s.pc = "decide" /\ s.report # None /\ s.index_start # None
        /\ WholeSecond(s.batchdate[1]) /\ WholeSecond(s.start[1])
        /\ WholeSecond(s.index_start[1]) /\ WholeSecond(clock)
        /\ s.report[1].import >= 1 /\ s.report[1].indexing[1] >= 1
        /\ s.report[1].backlog > s.report[1].total

\* what a run does apart from reporting: everything but the level of the
\* logger, the lines it emitted and the report
Low(s) == [s EXCEPT !.log_warning = FALSE, !.log = <<>>, !.report = None]

\* C9: reporting is purely observational.  Two invocations with the same
\* mode, flags and collaborator results, one with warnings enabled and one
\* without, are at every step in the same state apart from the logger: the
\* same statement, connections, calls, status table, locals, error and
\* return value; and without warnings no report is computed or emitted.
C9_ReportObservational ==
    /\ \A a, b \in Runs : Low(st[a]) = Low(st[b])
    /\ \A r \in Runs :
           ~st[r].log_warning =>
               /\ st[r].report = None
               /\ \A k \in 1..Len(st[r].log) : st[r].log[k].level # "WARNING"

\* C9's case: both invocations slept in their second iteration, the one
\* with warnings having reported
C9_Witness ==
    /\ Cardinality(Runs) = 2
    /\ \A r \in Runs : st[r].pc = "sleep" /\ st[r].iter = 2
    /\ \E a, b \in Runs : st[a].report # None /\ st[b].report = None
                          /\ Len(st[a].log) > Len(st[b].log)

\* C11: continuous mode has no normal exit.  A run ends with a return value
\* only in single-run mode, and only after the reporting step of its one
\* iteration: every call of the iteration returned, the connections are
\* closed, and the report is made when warnings are enabled.  A continuous
\* run never returns, whatever the outcomes of its iterations: it ends only
\* with an error.
C11_NoNormalExit ==
    \A r \in Runs :
        LET s == st[r] IN
        /\ (s.pc = "done" \/ s.ret # None) =>
               /\ s.args.once /\ s.pc = "done" /\ s.ret # None /\ s.err = None
               /\ s.iter = 1 /\ s.open = 0
               /\ Cardinality(Updates(s.hist)) = 1
               /\ \A k \in 1..Len(s.hist) : s.hist[k].ok
               /\ s.log_warning =>
                      /\ s.report # None
                      /\ s.log # <<>>
                      /\ s.log[Len(s.log)].msg = "Update completed."
        /\ ~s.args.once => (s.ret = None /\ s.pc # "done")

\* C11's case: a continuous run has been through an iteration that applied
\* changes and left the database up to date and through one without changes,
\* and goes on
C11_Witness ==
    \E r \in Runs :
        LET s == st[r] IN
        /\ ~s.args.once /\ s.iter = 2 /\ s.pc = "decide" /\ s.ret = None
        /\ \E i, j \in Updates(s.hist) :
               s.hist[i].label = "UP_TO_DATE" /\ s.hist[j].label = "NO_CHANGES"

\* the calls of an iteration on its first connection, after
\* replication.update returned the outcome given
FirstConnection(outcome, loop_start) ==
    IF outcome = "NO_CHANGES"
    THEN << Call("get_status", "", 0, 0, TRUE),
            Call("close", "", 0, 0, TRUE) >>
    ELSE << Call("log_status", "import", loop_start, 0, TRUE),
            Call("get_status", "", 0, 0, TRUE),
            Call("close", "", 0, 0, TRUE) >>

\* C12: the batch timestamp is read in every iteration.  After every call
\* of replication.update that returned, with NO_CHANGES or with changes
\* applied, get_status is called once before the next call of
\* replication.update: right after replication.update, or right after the
\* import log when one is written, and right before the close of the first
\* connection of the iteration.  The batch timestamp the loop holds from
\* then on is the one of the status table as that iteration left it, and
\* the backlog of the report of the iteration is the time between it and
\* now, in whole seconds.
C12_BatchDateReadEachIteration ==
    \A r \in Runs :
        LET s == st[r] IN
        /\ \A i \in Updates(s.hist) :
               s.hist[i].ok =>
                   LET after == After(s.hist, i)
                       first == FirstConnection(s.hist[i].label, s.hist[i - 1].a)
                   IN  /\ Cardinality(Places(after, "get_status")) <= 1
                       /\ IF Len(after) <= Len(first)
                          THEN IsPrefix(Returned(after), first)
                          ELSE SubSeq(after, 1, Len(first)) = first
                       /\ (NextUpdate(s.hist, i) <= Len(s.hist)
                             \/ s.pc \in {"report", "decide", "sleep", "done"}) =>
                              /\ Cardinality(Places(after, "get_status")) = 1
                              /\ Len(after) >= Len(first)
        /\ s.pc \in {"close_first", "now_index", "index_boundaries",
                     "index_by_rank", "connect_second", "set_indexed",
                     "log_index", "close_second", "report", "decide"} =>
               s.batchdate = Some(s.store.date)
        /\ (s.pc = "decide" /\ s.log_warning) =>
               /\ s.report # None
               /\ s.report[1].backlog * TicksPerSec <= clock - s.store.date
               /\ clock - s.store.date < (s.report[1].backlog + 1) * TicksPerSec

\* C12's case: the second iteration of a run has reported, on a batch
\* timestamp later than the one the first iteration read
C12_Witness ==
    \E r \in Runs :
        LET s == st[r] IN
        /\ s.iter = 2 /\ s.pc = "decide" /\ s.report # None
        /\ Cardinality(Places(s.hist, "get_status")) = 2
        /\ s.batchdate # None /\ s.batchdate[1] > 1

\* an indexing phase is about to run
Indexing(s) == s.pc \in {"index_boundaries", "index_by_rank"}

\* the last call of the run is an indexing phase that raised
IndexingRaised(s) ==
    /\ s.hist # <<>>
    /\ s.hist[Len(s.hist)].op \in {"index_boundaries", "index_by_rank"}
    /\ ~s.hist[Len(s.hist)].ok

\* C13: no compensating action on indexing failure.  When
\* replication.update applied changes and index_boundaries or index_by_rank
\* then raises, the run ends with that error; the import log of the
\* iteration was written and nothing was called after the failed phase:
\* no set_indexed, no index log; and the step that raises leaves the status
\* table, the indexed flag with it, as it was when the phase started.
C13_NoCompensation ==
    /\ [](\A r \in Runs :
             LET s == st[r] IN
             IndexingRaised(s) =>
                 /\ s.pc = "raised"
                 /\ s.err = Some(CollaboratorError(s.hist[Len(s.hist)].op))
                 /\ \E i \in Updates(s.hist) :
                        LET after == After(s.hist, i) IN
                        /\ NextUpdate(s.hist, i) > Len(s.hist)
                        /\ s.hist[i].label \in {"UP_TO_DATE", "MORE_PENDING"}
                        /\ after[1] = Call("log_status", "import", s.start[1], 0, TRUE)
                        /\ Places(after, "set_indexed") = {}
                        /\ \A k \in Places(after, "log_status") : k = 1
                        /\ Cardinality(Places(after, "connect")) = 0)
    /\ [][\A r \in Runs :
              (Indexing(st[r]) /\ st'[r].pc = "raised") =>
                  /\ st'[r].store = st[r].store
                  /\ IndexingRaised(st'[r])
                  /\ SubSeq(st'[r].hist, 1, Len(st[r].hist)) = st[r].hist]_vars

\* C13's case: index_by_rank raised on data that replication.update left
\* marked as indexed, and the run has ended with the mark still set
C13_Witness ==
    \E r \in Runs :
        LET s == st[r] IN
        /\ s.pc = "raised" /\ IndexingRaised(s)
        /\ s.hist[Len(s.hist)].op = "index_by_rank"
        /\ s.store.indexed
        /\ \E k \in Places(s.hist, "log_status") : s.hist[k].label = "import"

\* C14: changed iteration with indexing disabled.  A call of
\* replication.update that applied changes in a run with indexing disabled
\* is made in single-run mode, and the calls after it are the import log
\* with loop_start, get_status and the close of the first connection, and
\* no more: no indexing phase, no set_indexed, no index log, no second
\* connection.  index_start is unset, and the report shows no index
\* duration.
C14_ChangedWithoutIndexing ==
    \A r \in Runs :
        LET s == st[r] IN
        \A i \in Updates(s.hist) :
            (s.hist[i].ok /\ s.hist[i].label # "NO_CHANGES" /\ ~s.args.do_index) =>
                LET after == After(s.hist, i) IN
                /\ s.args.once
                /\ IsPrefix(Returned(after),
                            FirstConnection(s.hist[i].label, s.hist[i - 1].a))
                /\ Cardinality(Places(s.hist, "connect")) = 1
                /\ s.pc \notin {"now_index", "index_boundaries", "index_by_rank",
                                "connect_second", "set_indexed", "log_index",
                                "close_second"}
                /\ s.pc \in {"report", "decide", "done"} =>
                       /\ Len(after) = 3
                       /\ s.index_start = None
                /\ (s.pc \in {"decide", "done"} /\ s.log_warning) =>
                       /\ s.report # None
                       /\ s.report[1].indexing = None

\* C14's case: a single-run invocation without indexing applied changes,
\* reported and returned
C14_Witness ==
    \E r \in Runs :
        LET s == st[r] IN
        /\ s.args.once /\ ~s.args.do_index /\ s.state = "MORE_PENDING"
        /\ s.pc = "done" /\ s.report # None /\ s.store.indexed = FALSE
        /\ Len(s.hist) = 6

\* q is the greatest whole number of seconds not above delta ticks
RoundedDown(q, delta) ==
    q * TicksPerSec <= delta /\ delta < (q + 1) * TicksPerSec

\* q is delta ticks in seconds with the fraction dropped: the nearest whole
\* number of seconds between delta and zero
RoundedTowardsZero(q, delta) ==
    IF delta >= 0 THEN RoundedDown(q, delta)
    ELSE (q - 1) * TicksPerSec < delta /\ delta <= q * TicksPerSec

\* the durations of the report of a run that has just reported, each with
\* the exact difference of timestamps it stands for, in ticks
Durations(s, now) ==
    { <<s.report[1].import,
        (IF s.index_start # None THEN s.index_start[1] ELSE now) - s.start[1]>>,
      <<s.report[1].total, now - s.start[1]>>,
      <<s.report[1].backlog, now - s.batchdate[1]>> }
    \cup (IF s.index_start # None /\ s.report[1].indexing # None
          THEN {<<s.report[1].indexing[1], now - s.index_start[1]>>}
          ELSE {})

\* C15 as amended: rounding of the report.  Every duration of the report is
\* the exact difference of its timestamps with the fraction of a second
\* dropped: rounded down when the difference is not negative, and rounded
\* towards zero, that is up, when it is negative, as the backlog is when
\* the batch timestamp is later than now.
C15_RoundedTowardsZero ==
    \A r \in Runs :
        LET s == st[r] IN
        (s.pc = "decide" /\ s.log_warning) =>
            /\ s.report # None
            /\ \A d \in Durations(s, clock) : RoundedTowardsZero(d[1], d[2])

\* C15 as claimed: every duration of the report is rounded down, a negative
\* backlog too
C15_RoundedDown ==
    \A r \in Runs :
        LET s == st[r] IN
        (s.pc = "decide" /\ s.log_warning) =>
            /\ s.report # None
            /\ \A d \in Durations(s, clock) : RoundedDown(d[1], d[2])

\* C15's case: a report with a batch timestamp later than now by more than
\* a second and a fraction, and with an import that took a fraction of a
\* second
C15_Witness ==
    \E r \in Runs :
        LET s == st[r] IN
        /\ s.pc = "decide" /\ s.report # None
        /\ clock - s.batchdate[1] < -TicksPerSec
        /\ ~WholeSecond(s.batchdate[1] - clock)
        /\ s.report[1].backlog = -1
        /\ s.report[1].import = 0 /\ clock > s.start[1]

\* the place of the call of replication.update of iteration j
IterationUpdate(h, j) ==
    CHOOSE i \in Updates(h) : Cardinality({u \in Updates(h) : u <= i}) = j

\* the line was emitted in an iteration that applied changes, or that slept
\* or is about to
ChangedOrSleeps(s, line) ==
    LET i == IterationUpdate(s.hist, line.iter) IN
    \/ s.hist[i].label \in {"UP_TO_DATE", "MORE_PENDING"}
    \/ Places(After(s.hist, i), "sleep") # {}
    \/ s.iter = line.iter /\ s.pc \in {"decide", "sleep"}

\* C16 as amended: logging of the loop.  While no error is raised, every
\* line the loop logs is emitted in an iteration, after its call of
\* replication.update, and that iteration applied changes, or sleeps, or is
\* the one iteration of a single-run invocation, which reports after
\* NO_CHANGES too.
C16_LogsWhenChangedSleepingOrOnce ==
    \A r \in Runs :
        LET s == st[r] IN
        s.pc # "raised" =>
            \A k \in 1..Len(s.log) :
                /\ s.log[k].iter \in 1..Cardinality(Updates(s.hist))
                /\ s.args.once \/ ChangedOrSleeps(s, s.log[k])

\* C16 as claimed: every line the loop logs is emitted in an iteration that
\* applied changes or that sleeps
C16_LogsOnlyWhenChangedOrSleeping ==
    \A r \in Runs :
        LET s == st[r] IN
        s.pc # "raised" =>
            \A k \in 1..Len(s.log) :
                /\ s.log[k].iter \in 1..Cardinality(Updates(s.hist))
                /\ ChangedOrSleeps(s, s.log[k])

\* C16's case: the first iteration of a continuous run found no changes,
\* logged its report and that it sleeps, and slept; the second iteration
\* applied changes and logged its report
C16_Witness ==
    \E r \in Runs :
        LET s == st[r] IN
        /\ ~s.args.once /\ s.iter = 2 /\ s.pc = "decide"
        /\ s.hist[IterationUpdate(s.hist, 1)].label = "NO_CHANGES"
        /\ Cardinality(Places(s.hist, "sleep")) = 1
        /\ s.state = "MORE_PENDING"
        /\ Len(s.log) = 3 /\ s.log[2].iter = 1 /\ s.log[3].iter = 2

\* C17: every connection is released.  When the run has ended, with a
\* return value or with an error, every connection the loop opened has been
\* closed, also when replication.update, log_status, get_status or
\* set_indexed raised while a connection was held.
C17_ConnectionsReleased ==
    \A r \in Runs :
        LET s == st[r] IN
        s.pc \in {"done", "raised"} =>
            /\ s.open = 0
            /\ Cardinality(Places(s.hist, "close")) =
                   Cardinality({k \in Places(s.hist, "connect") : s.hist[k].ok})

\* both settings are invalid: a continuous run without indexing, on the
\* host download.geofabrik.de with an update interval below a day
BothInvalid(s) ==
    /\ UrlHost(s.config.REPLICATION_URL) = "download.geofabrik.de"
    /\ s.config.REPLICATION_UPDATE_INTERVAL < 86400
    /\ ~s.args.once /\ ~s.args.do_index

\* C19: order of the validations.  The check of the update interval comes
\* first: when both settings are invalid the run ends with the usage error
\* of the update interval and the check of --no-index is not made, so its
\* line is not logged; a run refused for --no-index has passed the check of
\* the interval; and a run that ends with a usage error has logged one
\* fatal line and raised that one error, before the loop.
C19_ValidationOrder ==
    \A r \in Runs :
        LET s == st[r] IN
        s.pc # "validate" =>
            /\ BothInvalid(s) =>
                   /\ s.pc = "raised" /\ s.err = Some(IntervalError)
                   /\ s.log = << LogLine("FATAL",
                                         "Update interval too low for download.geofabrik.de.",
                                         0) >>
            /\ s.err = Some(NoIndexError) =>
                   /\ s.config.REPLICATION_UPDATE_INTERVAL >= 86400
                         \/ \A k \in 1..Len(s.config.REPLICATION_URL) :
                                s.config.REPLICATION_URL[k] # "download.geofabrik.de"
                   /\ s.log = << LogLine("FATAL",
                                         "Indexing cannot be disabled when running updates continuously.",
                                         0) >>
            /\ (s.err # None /\ s.err[1].type = "UsageError") =>
                   /\ s.pc = "raised" /\ NeverStarted(s)
                   /\ Len(s.log) = 1 /\ s.log[1].level = "FATAL"
                   /\ s.err \in {Some(IntervalError), Some(NoIndexError)}

\* C19's case: a run with both settings invalid was refused for its update
\* interval
C19_Witness ==
    \E r \in Runs :
        /\ BothInvalid(st[r]) /\ st[r].pc = "raised"
        /\ st[r].err = Some(IntervalError) /\ Len(st[r].log) = 1

\* C20: the recheck interval is set whenever the loop sleeps.  The recheck
\* interval is read in continuous mode only, before the loop, and stays
\* unset in single-run mode; the sleep is reached in continuous mode only,
\* with the recheck interval set to the configured value, and no run ends
\* for a recheck interval that was not set.
C20_RecheckIntervalSet ==
    \A r \in Runs :
        LET s == st[r] IN
        /\ s.args.once => s.recheck_interval = None
        /\ (~s.args.once /\ s.pc \notin {"validate", "raised"}) =>
               s.recheck_interval = Some(s.config.REPLICATION_RECHECK_INTERVAL)
        /\ s.pc = "sleep" =>
               /\ ~s.args.once
               /\ s.recheck_interval = Some(s.config.REPLICATION_RECHECK_INTERVAL)
        /\ s.err # None => s.err[1].type # "UnboundLocalError"
        /\ \A k \in Places(s.hist, "sleep") :
               s.hist[k].a = s.config.REPLICATION_RECHECK_INTERVAL

\* C20's case: a continuous run is about to sleep for its recheck interval
\* of 600 seconds, a second time
C20_Witness ==
    \E r \in Runs :
        /\ st[r].pc = "sleep" /\ st[r].recheck_interval = Some(600)
        /\ st[r].iter = 2 /\ Places(st[r].hist, "sleep") # {}

\* the invocation is in the loop of a continuous run, or on its way to it,
\* and no error has ended it
Continuing(s) == ~s.args.once /\ s.pc # "raised"

\* the last call the invocation made is a call of replication.update
UpdateCalled(s) == s.hist # <<>> /\ s.hist[Len(s.hist)].op = "update"

\* C18: progress in continuous mode.  When every step of the loop that can
\* be taken is taken, a continuous run that passed the validation and in
\* which no collaborator raises calls replication.update again and again,
\* without end: at any time, either an error has ended the run or a call of
\* replication.update is still to come.
C18_UpdateInfinitelyOften ==
    []<>(\A r \in Runs : Continuing(st[r]) => UpdateCalled(st[r]))

\* C18's case: a continuous run has called replication.update in an
\* iteration that follows one without changes, after which it slept
C18_Witness ==
    \E r \in Runs :
        LET s == st[r] IN
        /\ Continuing(s) /\ UpdateCalled(s)
        /\ s.batchdate # None
        /\ s.log_warning /\ s.report # None
        /\ s.hist[Len(s.hist)].label = "MORE_PENDING"

====
